---------------------------- MODULE Spec2Model ----------------------------
(***************************************************************************)
(* A model of ecl2df's text-to-table paths:                                *)
(*   - fipreports.df / report_block_lineparser: the line-by-line scan of   *)
(*     a PRT file for "<FIPNAME> REPORT REGION <n>" blocks;                *)
(*   - pvt2df.densitydeck2df / inject_ntpvt: DENSITY extraction with the   *)
(*     NTPVT dimension declared in TABDIMS or guessed by re-parsing.       *)
(*   - pvt2df.deck2df: the loop over the keywords of KEYWORD_COLUMNS;      *)
(*   - df and densitydeck2df called a second time on the same input.       *)
(*                                                                         *)
(* Text is modelled at token level: a line is what the code inspects of    *)
(* it (what it starts with, which patterns match, its ':'-separated        *)
(* sections as sequences of whitespace-separated tokens).  Python's None   *)
(* is the empty tuple and a value v that may be None is <<v>>.             *)
(***************************************************************************)
EXTENDS Integers, Sequences, FiniteSets, TLC

VARIABLES
    \* ---- fipreports.df -------------------------------------------------
    lines,            \* the lines read from prt_fh so far (history)
    records,          \* "records": the rows appended so far
    emitted_at,       \* history: emitted_at[i] = index in lines of row i
    in_report_block,  \* state variable of the scan
    region_index,     \* state variable of the scan
    date,             \* state variable of the scan
    pc,               \* "scan" | "returned" | "raised"
    exc,              \* the exception that ended the scan, or None
    \* ---- report_block_lineparser applied to one line --------------------
    lp_line,          \* the argument
    lp_result,        \* None before the call, <<result>> after it
    \* ---- pvt2df.densitydeck2df -----------------------------------------
    text0,            \* history: the deck text the caller's deck comes from
    deck0,            \* the "deck" argument as passed by the caller
    pvtnumcount0,     \* the "pvtnumcount" argument as passed by the caller
    deck,             \* local "deck"
    pvtnumcount,      \* local "pvtnumcount"
    candidate,        \* guess_dim: the candidate being tried
    attempts,         \* guess_dim: the candidates tried so far, in order
    pvtnum_estimate,  \* local "pvtnum_estimate", None until guessed
    injected,         \* history: the arguments of every inject_dimcount call
    density_df,       \* the rows of density_df
    dpc,              \* position in densitydeck2df
    dexc,             \* the exception that ended densitydeck2df, or None
    \* ---- pvt2df.inject_ntpvt called on the deck string -----------------
    inj,              \* None, or <<[ntpvt, out]>> after inject_ntpvt
    \* ---- one call after another on the same input ----------------------
    call,             \* 1 during the first call, 2 during the second
    first,            \* None, or <<what the first call ended with>>
    \* ---- pvt2df.deck2df -------------------------------------------------
    d2deck,           \* local "deck"
    d2density,        \* local "density_df", None before line 181
    keyword,          \* position of the loop in KEYWORD_COLUMNS.keys()
    frames,           \* local "frames"
    d2pc,             \* position in deck2df
    d2exc,            \* the exception that ended deck2df, or None
    d2ret             \* None, or <<the value deck2df returned>>

vars == << lines, records, emitted_at, in_report_block, region_index, date,
           pc, exc, lp_line, lp_result,
           text0, deck0, pvtnumcount0, deck, pvtnumcount, candidate, attempts,
           pvtnum_estimate, injected, density_df, dpc, dexc, inj,
           call, first,
           d2deck, d2density, keyword, frames, d2pc,
           d2exc, d2ret >>

reportvars == << lines, records, emitted_at, in_report_block, region_index,
                 date, pc, exc >>
linevars == << lp_line, lp_result >>
pvtvars == << text0, deck0, pvtnumcount0, deck, pvtnumcount, candidate,
              attempts, pvtnum_estimate, injected, density_df, dpc, dexc, inj >>
callvars == << call, first >>
d2vars == << d2deck, d2density, keyword, frames, d2pc,
             d2exc, d2ret >>

None == << >>
Some(v) == << v >>

-----------------------------------------------------------------------------
(* Bounds of the model *)

\* lines read from one PRT file
MaxLines == 4
\* tokens in the oil and the gas field of a generated data line
MaxTokens == 4
\* tokens in the water field of a generated data line
MaxWaterTokens == 2
\* DENSITY records in a deck text
MaxRecords == 3
\* the largest NTPVT a TABDIMS of a deck text declares
MaxNtpvt == 3
\* the last candidate guess_dim tries
GuessCeiling == 2

-----------------------------------------------------------------------------
(* Conversions: float(), int(), parse_ecl_month() on the tokens used *)

\* float(token) for the numeric tokens of the model; -0.0 == 0.0 in Python
FloatTable ==
    [t \in {"21091398.", "4590182.", "-0.", "483594842.", "143128.",
            "-161400.", "0.", "3017075.", "76266."} |->
        CASE t = "21091398."  -> 21091398
          [] t = "4590182."   -> 4590182
          [] t = "-0."        -> 0
          [] t = "483594842." -> 483594842
          [] t = "143128."    -> 143128
          [] t = "-161400."   -> -161400
          [] t = "0."         -> 0
          [] t = "3017075."   -> 3017075
          [] t = "76266."     -> 76266]

IsFloat(t) == t \in DOMAIN FloatTable
Float(t) == FloatTable[t]

\* int(token) for the integer tokens of the model
IntTable ==
    [t \in {"1", "2", "3", "8", "2000", "2001"} |->
        CASE t = "1" -> 1 [] t = "2" -> 2 [] t = "3" -> 3 [] t = "8" -> 8
          [] t = "2000" -> 2000 [] t = "2001" -> 2001]

IsInt(t) == t \in DOMAIN IntTable
ToInt(t) == IntTable[t]

\* common.parse_ecl_month: Eclipse month name to month number
parse_ecl_month(m) == CASE m = "JAN" -> 1 [] m = "FEB" -> 2

-----------------------------------------------------------------------------
(* Lines of a PRT file *)

\* df(prtfile, fipname="FIPNUM"): the configured FIP name
fipname == "FIPNUM"

\* A line, as far as the code looks at it:
\*   ds     the groups (step, day, month, year) when datematcher matches
\*   bh     the FIP name and region digits of a "<FIP> REPORT REGION <n>" text
\*   start  what the line starts with: "eq" (" ====..."), "dashes" (" :--"),
\*          "margin" (" :" not followed by "--"), "plain" (anything else)
\*   sec    line.split(":")[1:], each section split on whitespace
MkLine(ds, bh, start, sec) == [ds |-> ds, bh |-> bh, start |-> start, sec |-> sec]

DateLine(day, month, year) ==
    MkLine(Some(<< "1", day, month, year >>), None, "plain", << >>)
OpenLine(fip, n) ==
    MkLine(None, Some([fip |-> fip, n |-> n]), "plain", << <<fip, "REPORT", "REGION", n>> >>)
CloseLine == MkLine(None, None, "eq", << >>)
DashLine == MkLine(None, None, "dashes", << <<"-">>, <<"-">>, <<"-">>, <<"-">> >>)
PlainLine == MkLine(None, None, "plain", << >>)
DataLine(label, oil, water, gas) ==
    MkLine(None, None, "margin", << label, oil, water, gas >>)
\* a line that matches datematcher and reportblockmatcher at once
DateOpenLine(day, month, year, fip, n) ==
    MkLine(Some(<< "1", day, month, year >>), Some([fip |-> fip, n |-> n]),
           "plain", << >>)

\* The two lines quoted in the module docstring (lines 14 and 22)
CurrentlyInPlaceLine ==
    DataLine(<<"CURRENTLY", "IN", "PLACE">>, <<"21091398.", "21091398.">>,
             <<"4590182.">>, <<"-0.", "483594842.", "483594842.">>)
OutflowToRegion1Line ==
    DataLine(<<"OUTFLOW", "TO", "REGION", "1">>, <<"143128.", "143128.">>,
             <<"-161400.">>, <<"0.", "3017075.", "3017075.">>)
\* docstring line 16
OutflowToOtherRegionsLine ==
    DataLine(<<"OUTFLOW", "TO", "OTHER", "REGIONS">>, <<"76266.", "76266.">>,
             <<"76266.">>, <<"0.", "3017075.", "3017075.">>)
\* docstring line 17
OutflowThroughWellsLine ==
    DataLine(<<"OUTFLOW", "THROUGH", "WELLS">>, <<"0.">>, <<"0.">>, <<"0.">>)
\* an allowed row name with four tokens in its oil field
FourOilTokensLine ==
    DataLine(<<"ORIGINALLY", "IN", "PLACE">>,
             <<"0.", "0.", "0.", "0.">>, <<"0.">>, <<"0.">>)
\* a margin-marked line whose label is none of the allowed ones
OtherLabelLine ==
    DataLine(<<"PAV", "=">>, <<"0.">>, <<"0.">>, <<"0.">>)

-----------------------------------------------------------------------------
(* report_block_lineparser *)

Raise(e) == [tag |-> "raise", exc |-> e]

AllowedFirstWords == {"CURRENTLY", "OUTFLOW", "MATERIAL", "ORIGINALLY"}

\* any([line.startswith(x) for x in allowed_line_starts])
StartsWithAllowed(line) ==
    /\ line.start = "margin"
    /\ Len(line.sec) >= 1
    /\ Len(line.sec[1]) >= 1
    /\ line.sec[1][1] \in AllowedFirstWords

\* "OUTFLOW TO REGION" in line
ContainsOutflowToRegion(line) ==
    \E s \in 1..Len(line.sec) :
        \E i \in 1..Len(line.sec[s]) :
            /\ i + 2 <= Len(line.sec[s])
            /\ SubSeq(line.sec[s], i, i + 2) = <<"OUTFLOW", "TO", "REGION">>

AllFloat(toks) == \A i \in 1..Len(toks) : IsFloat(toks[i])

\* LabelPart keeping the whole label as row_name of an "OUTFLOW TO REGION" line
LabelPart_KeepsLabel(line) ==
    LET label == line.sec[1] IN
    IF ContainsOutflowToRegion(line)
    THEN IF Len(label) < 4 THEN Raise("IndexError")
         ELSE IF ~IsInt(label[4]) THEN Raise("ValueError")
         ELSE [tag |-> "ok", row_name |-> label,
               to_index |-> Some(ToInt(label[4]))]
    ELSE [tag |-> "ok", row_name |-> label, to_index |-> None]

\* to_index and row_name
LabelPart(line) ==
    LET label == line.sec[1] IN
    IF ContainsOutflowToRegion(line)
    THEN IF Len(label) < 4 THEN Raise("IndexError")
         ELSE IF ~IsInt(label[4]) THEN Raise("ValueError")
         ELSE [tag |-> "ok", row_name |-> <<"OUTFLOW", "TO", "REGION">>,
               to_index |-> Some(ToInt(label[4]))]
    ELSE [tag |-> "ok", row_name |-> label, to_index |-> None]

\* OilPart with the two-token case unpacked into (vapour_oil, total_oil)
OilPart_TwoTokensVapour(line) ==
    IF Len(line.sec) < 2 THEN Raise("IndexError")
    ELSE LET oil == line.sec[2] IN
         IF Len(oil) = 3
         THEN IF AllFloat(oil)
              THEN [tag |-> "ok", liquid_oil |-> Some(Float(oil[1])),
                    vapour_oil |-> Some(Float(oil[2])),
                    total_oil |-> Some(Float(oil[3]))]
              ELSE Raise("ValueError")
         ELSE IF Len(oil) = 1
         THEN IF AllFloat(oil)
              THEN [tag |-> "ok", liquid_oil |-> None, vapour_oil |-> None,
                    total_oil |-> Some(Float(oil[1]))]
              ELSE Raise("ValueError")
         ELSE IF Len(oil) = 2 /\ AllFloat(oil)
              THEN [tag |-> "ok", liquid_oil |-> None,
                    vapour_oil |-> Some(Float(oil[1])),
                    total_oil |-> Some(Float(oil[2]))]
              ELSE Raise("ValueError")

\* Oil section
OilPart(line) ==
    IF Len(line.sec) < 2 THEN Raise("IndexError")
    ELSE LET oil == line.sec[2] IN
         IF Len(oil) = 3
         THEN IF AllFloat(oil)
              THEN [tag |-> "ok", liquid_oil |-> Some(Float(oil[1])),
                    vapour_oil |-> Some(Float(oil[2])),
                    total_oil |-> Some(Float(oil[3]))]
              ELSE Raise("ValueError")
         ELSE IF Len(oil) = 1
         THEN IF AllFloat(oil)
              THEN [tag |-> "ok", liquid_oil |-> None, vapour_oil |-> None,
                    total_oil |-> Some(Float(oil[1]))]
              ELSE Raise("ValueError")
         ELSE IF Len(oil) = 2 /\ AllFloat(oil)
              THEN [tag |-> "ok", liquid_oil |-> Some(Float(oil[1])),
                    vapour_oil |-> None,
                    total_oil |-> Some(Float(oil[2]))]
              ELSE Raise("ValueError")

\* total_water = float(colonsections[3])
WaterPart(line) ==
    IF Len(line.sec) < 3 THEN Raise("IndexError")
    ELSE LET water == line.sec[3] IN
         IF Len(water) = 1 /\ AllFloat(water)
         THEN [tag |-> "ok", total_water |-> Some(Float(water[1]))]
         ELSE Raise("ValueError")

\* Gas section
GasPart(line) ==
    IF Len(line.sec) < 4 THEN Raise("IndexError")
    ELSE LET gas == line.sec[4] IN
         IF Len(gas) = 1
         THEN IF AllFloat(gas)
              THEN [tag |-> "ok", free_gas |-> None, dissolved_gas |-> None,
                    total_gas |-> Some(Float(gas[1]))]
              ELSE Raise("ValueError")
         ELSE IF Len(gas) = 3 /\ AllFloat(gas)
              THEN [tag |-> "ok", free_gas |-> Some(Float(gas[1])),
                    dissolved_gas |-> Some(Float(gas[2])),
                    total_gas |-> Some(Float(gas[3]))]
              ELSE Raise("ValueError")

report_block_lineparser(line) ==
    IF ~StartsWithAllowed(line) THEN [tag |-> "None"]
    ELSE LET l == LabelPart(line)
             o == OilPart(line)
             w == WaterPart(line)
             g == GasPart(line)
         IN  IF l.tag = "raise" THEN l
             ELSE IF o.tag = "raise" THEN o
             ELSE IF w.tag = "raise" THEN w
             ELSE IF g.tag = "raise" THEN g
             ELSE [tag |-> "tuple",
                   row_name |-> l.row_name,
                   to_index |-> l.to_index,
                   liquid_oil |-> o.liquid_oil,
                   vapour_oil |-> o.vapour_oil,
                   total_oil |-> o.total_oil,
                   total_water |-> w.total_water,
                   free_gas |-> g.free_gas,
                   dissolved_gas |-> g.dissolved_gas,
                   total_gas |-> g.total_gas]

-----------------------------------------------------------------------------
(* fipreports.df: the scan of the PRT file *)

\* re.match(datematcher, line)
MatchesDate(line) == line.ds # None

\* datetime.date(year=int(group(4)), month=parse_ecl_month(group(3)),
\*               day=int(group(2))), as <<year, month, day>>
NewDate(line) ==
    LET g == line.ds[1] IN << ToInt(g[4]), parse_ecl_month(g[3]), ToInt(g[2]) >>

\* re.match(reportblockmatcher, line), the pattern built from fipname
MatchesReportBlock(line) == line.bh # None /\ line.bh[1].fip = fipname

\* int(matchedreportblock.group(1))
BlockRegion(line) == ToInt(line.bh[1].n)

\* line.startswith(" ============================")
IsBlockClose(line) == line.start = "eq"

\* line.startswith(" :") and not line.startswith(" :--")
IsMarginLine(line) == line.start = "margin"

\* [date, fipname, region_index] + list(report_block_lineparser(line))
MkRecord(d, r, t) ==
    [date |-> d, fipname |-> fipname, region_index |-> r,
     row_name |-> t.row_name, to_index |-> t.to_index,
     liquid_oil |-> t.liquid_oil, vapour_oil |-> t.vapour_oil,
     total_oil |-> t.total_oil, total_water |-> t.total_water,
     free_gas |-> t.free_gas, dissolved_gas |-> t.dissolved_gas,
     total_gas |-> t.total_gas]

\* The lines a modelled PRT file is made of.  The date-stamp lines carry
\* valid days and month names, so datetime.date(...) does not raise; a first
\* label token is a whole word (" :CURRENTLY" followed by a blank).
Dates == { <<"1", "JAN", "2000">>, <<"2", "FEB", "2001">> }
ReportLines ==
    { DateLine(d[1], d[2], d[3]) : d \in Dates }
    \cup { OpenLine("FIPNUM", n) : n \in {"1", "2"} }
    \cup { OpenLine("FIPZON", "3") }
    \cup { DateOpenLine("1", "JAN", "2000", "FIPNUM", "8") }
    \cup { CloseLine, DashLine, PlainLine }
    \cup { CurrentlyInPlaceLine, OutflowToRegion1Line,
           OutflowToOtherRegionsLine, FourOilTokensLine, OtherLabelLine }

\* The state a scan starts in (lines 125-131)
ScanStart ==
    /\ lines = << >>
    /\ records = << >>
    /\ emitted_at = << >>
    /\ in_report_block = FALSE
    /\ region_index = None
    /\ date = None
    /\ pc = "scan"
    /\ exc = None

\* OnDate with "if date is None" for "if newdate != date"
OnDate_KeepsFirstDate(line) ==
    /\ date' = IF date = None THEN Some(NewDate(line)) ELSE date
    /\ UNCHANGED << records, emitted_at, in_report_block, region_index, pc, exc >>

\* The date-stamp branch of the loop body
OnDate(line) ==
    /\ date' = Some(NewDate(line))
    /\ UNCHANGED << records, emitted_at, in_report_block, region_index, pc, exc >>

\* The block-open branch of the loop body
OnBlockOpen(line) ==
    /\ in_report_block' = TRUE
    /\ region_index' = Some(BlockRegion(line))
    /\ UNCHANGED << records, emitted_at, date, pc, exc >>

\* OnBlockClose without "in_report_block = False"
OnBlockClose_StaysInBlock(line) ==
    UNCHANGED << records, emitted_at, in_report_block, region_index, date, pc, exc >>

\* The block-close branch of the loop body
OnBlockClose(line) ==
    /\ in_report_block' = FALSE
    /\ UNCHANGED << records, emitted_at, region_index, date, pc, exc >>

\* records.append([...] + list(report_block_lineparser(line))); list(None)
\* raises TypeError, and an exception of the line parser leaves df
OnMarginLine(line) ==
    LET t == report_block_lineparser(line) IN
    /\ IF t.tag = "tuple"
       THEN /\ records' = Append(records, MkRecord(date, region_index, t))
            /\ emitted_at' = Append(emitted_at, Len(lines) + 1)
            /\ UNCHANGED << pc, exc >>
       ELSE /\ pc' = "raised"
            /\ exc' = Some(IF t.tag = "None" THEN "TypeError" ELSE t.exc)
            /\ UNCHANGED << records, emitted_at >>
    /\ UNCHANGED << in_report_block, region_index, date >>

\* ReachesAppend without the "if in_report_block" test
ReachesAppend_AnyState(line) == IsMarginLine(line)

\* Does the loop body reach records.append for this line?
ReachesAppend(line) == in_report_block /\ IsMarginLine(line)

\* One iteration of "for line in prt_fh"
LoopBody(line) ==
    /\ lines' = Append(lines, line)
    /\ IF MatchesDate(line) THEN OnDate(line)
       ELSE IF MatchesReportBlock(line) THEN OnBlockOpen(line)
       ELSE IF IsBlockClose(line) THEN OnBlockClose(line)
       ELSE IF ReachesAppend(line) THEN OnMarginLine(line)
       ELSE UNCHANGED << records, emitted_at, in_report_block, region_index,
                         date, pc, exc >>

ReadLine ==
    /\ pc = "scan"
    /\ Len(lines) < MaxLines
    /\ \E line \in ReportLines : LoopBody(line)
    /\ UNCHANGED << linevars, pvtvars, callvars, d2vars >>

\* prt_fh is exhausted: return pd.DataFrame(data=records, ...)
EndOfFile ==
    /\ pc = "scan"
    /\ pc' = "returned"
    /\ UNCHANGED << lines, records, emitted_at, in_report_block, region_index,
                    date, exc, linevars, pvtvars, callvars, d2vars >>

LineIdle == lp_line = PlainLine /\ lp_result = None
PvtIdle ==
    /\ text0 = None /\ deck0 = None /\ pvtnumcount0 = None /\ deck = None
    /\ pvtnumcount = None /\ candidate = 0 /\ attempts = << >>
    /\ pvtnum_estimate = None /\ injected = << >> /\ density_df = << >>
    /\ dpc = "idle" /\ dexc = None /\ inj = None
ReportIdle ==
    /\ lines = << >> /\ records = << >> /\ emitted_at = << >>
    /\ in_report_block = FALSE /\ region_index = None /\ date = None
    /\ pc = "idle" /\ exc = None
CallIdle == call = 1 /\ first = None
D2Idle ==
    /\ d2deck = None /\ d2density = None /\ keyword = 0 /\ frames = << >>
    /\ d2pc = "idle" /\ d2exc = None /\ d2ret = None

Init == ScanStart /\ LineIdle /\ PvtIdle /\ CallIdle /\ D2Idle
Next == ReadLine \/ EndOfFile
Spec == Init /\ [][Next]_vars

-----------------------------------------------------------------------------
(* What the history of lines says, for the properties of the scan *)

\* The transition a line takes, in the order the loop body tests them
LineClass(line) ==
    IF MatchesDate(line) THEN "date"
    ELSE IF MatchesReportBlock(line) THEN "open"
    ELSE IF IsBlockClose(line) THEN "close"
    ELSE "other"

MaxOf(S) == CHOOSE m \in S : \A x \in S : x <= m

\* indices below j of the lines of ls with one of the classes cs
Before(ls, j, cs) == { i \in 1..(j - 1) : LineClass(ls[i]) \in cs }

\* InBlock after the first j-1 lines of ls
InBlockBefore(ls, j) ==
    LET M == Before(ls, j, {"open", "close"})
    IN  M # {} /\ LineClass(ls[MaxOf(M)]) = "open"

\* the region of the latest block-open line among the first j-1 lines
RegionBefore(ls, j) ==
    LET M == Before(ls, j, {"open"})
    IN  IF M = {} THEN None ELSE Some(BlockRegion(ls[MaxOf(M)]))

\* the date of the latest date-stamp line among the first j-1 lines
DateBefore(ls, j) ==
    LET M == Before(ls, j, {"date"})
    IN  IF M = {} THEN None ELSE Some(NewDate(ls[MaxOf(M)]))

\* line j of ls is read inside a block, is margin-marked and parses to a tuple
ParsedDataLine(ls, j) ==
    /\ LineClass(ls[j]) = "other"
    /\ InBlockBefore(ls, j)
    /\ IsMarginLine(ls[j])
    /\ report_block_lineparser(ls[j]).tag = "tuple"

\* The five row kinds of a ReportRow
CurrentlyInPlace == <<"CURRENTLY", "IN", "PLACE">>
OutflowToRegion == <<"OUTFLOW", "TO", "REGION">>
OutflowThroughWells == <<"OUTFLOW", "THROUGH", "WELLS">>
MaterialBalanceError == <<"MATERIAL", "BALANCE", "ERROR.">>
OriginallyInPlace == <<"ORIGINALLY", "IN", "PLACE">>
RowKinds == { CurrentlyInPlace, OutflowToRegion, OutflowThroughWells,
              MaterialBalanceError, OriginallyInPlace }

\* the row kind a label names: "OUTFLOW TO REGION <n>" is OutflowToRegion
LabelKind(label) ==
    IF Len(label) >= 3 /\ SubSeq(label, 1, 3) = OutflowToRegion
    THEN OutflowToRegion ELSE label

-----------------------------------------------------------------------------
(* Properties of the scan *)

\* C1: the scan starts Outside; after any sequence of lines it is InBlock
\* exactly when the latest block-open or block-close line was a block-open
\* line, and region_index is the n of the latest block-open line (None when
\* there was none): date-stamp and data lines change neither.
C1_StateTracking ==
    /\ in_report_block = InBlockBefore(lines, Len(lines) + 1)
    /\ region_index = RegionBefore(lines, Len(lines) + 1)
    /\ (lines = << >> => ~in_report_block)

\* C1 witness: InBlock again after a close, a date-stamp line read last
C1_Witness ==
    /\ Len(lines) = 4
    /\ in_report_block
    /\ LineClass(lines[4]) = "date"
    /\ region_index = Some(2)
    /\ \E i \in 1..3 : LineClass(lines[i]) = "close"
    /\ \E i \in 1..3 : LineClass(lines[i]) = "open" /\ BlockRegion(lines[i]) = 1

\* C2: every emitted row carries the region of the latest block-open line
\* before its source line, with no block-close line between the two; no row
\* comes from a line read Outside.
C2_NoRegionLeak ==
    \A i \in 1..Len(records) :
        LET j == emitted_at[i]
            opens == Before(lines, j, {"open"})
        IN  /\ opens # {}
            /\ records[i].region_index = Some(BlockRegion(lines[MaxOf(opens)]))
            /\ \A k \in (MaxOf(opens) + 1)..(j - 1) : LineClass(lines[k]) # "close"

\* C2 witness: a row emitted in a second block, for another region, after
\* the first block was closed
C2_Witness ==
    \E i \in 1..Len(records) :
        \E a, b, c \in 1..Len(lines) :
            /\ a < b /\ b < c /\ c < emitted_at[i]
            /\ LineClass(lines[a]) = "open"
            /\ LineClass(lines[b]) = "close"
            /\ LineClass(lines[c]) = "open"
            /\ BlockRegion(lines[a]) # BlockRegion(lines[c])
            /\ records[i].region_index = Some(BlockRegion(lines[c]))

\* C3: the rows are, in order, exactly the data lines that were read inside
\* a block and parsed, one row each, and each row's date is the date of the
\* latest date-stamp line before its source line (None when there is none),
\* whatever date-stamp lines were read after it.
C3_DateAtEmission ==
    /\ Len(emitted_at) = Len(records)
    /\ \A i \in 1..Len(records) :
          /\ emitted_at[i] \in 1..Len(lines)
          /\ i > 1 => emitted_at[i - 1] < emitted_at[i]
          /\ records[i].date = DateBefore(lines, emitted_at[i])
    /\ { emitted_at[i] : i \in 1..Len(records) }
          = { j \in 1..Len(lines) : ParsedDataLine(lines, j) }

\* C3 witness: a row stamped with one date, and a date-stamp line with
\* another date read after it
C3_Witness ==
    \E i \in 1..Len(records) :
        /\ records[i].date # None
        /\ \E k \in (emitted_at[i] + 1)..Len(lines) :
              /\ LineClass(lines[k]) = "date"
              /\ Some(NewDate(lines[k])) # records[i].date

\* a line with an allowed row-name prefix whose fields do not parse
Malformed(line) ==
    StartsWithAllowed(line) /\ report_block_lineparser(line).tag = "raise"

\* C6: a line inside a block with an allowed prefix and an unrecognized
\* field shape is dropped and the scan continues: the scan does not abort.
C6_ScanSurvivesMalformedLine ==
    \A j \in 1..Len(lines) :
        (InBlockBefore(lines, j) /\ LineClass(lines[j]) = "other"
            /\ Malformed(lines[j]))
        => pc # "raised"

\* C7: inside a block a row is emitted exactly for the margin-marked lines
\* whose row name is one of the five kinds; every other line is skipped
\* without an error, and every row_name is one of the five kinds.
C7_OnlyFiveKinds ==
    /\ \A i \in 1..Len(records) : records[i].row_name \in RowKinds
    /\ \A j \in 1..Len(lines) :
          (LineClass(lines[j]) = "other" /\ InBlockBefore(lines, j)
              /\ ~(IsMarginLine(lines[j]) /\ Len(lines[j].sec) >= 1
                   /\ LabelKind(lines[j].sec[1]) \in RowKinds))
          => /\ j \notin { emitted_at[i] : i \in 1..Len(records) }
             /\ ~(pc = "raised" /\ j = Len(lines))

-----------------------------------------------------------------------------
(* report_block_lineparser applied to single lines *)

RECURSIVE SeqsUpTo(_, _)
\* the sequences over S of length 0..n
SeqsUpTo(S, n) ==
    IF n = 0 THEN { << >> }
    ELSE LET shorter == SeqsUpTo(S, n - 1)
         IN  shorter \cup { Append(q, x) : q \in { r \in shorter : Len(r) = n - 1 }, x \in S }

GenTokens == { "143128.", "-0." }

GenLabels ==
    { CurrentlyInPlace,
      <<"OUTFLOW", "TO", "REGION", "1">>,
      <<"OUTFLOW", "TO", "REGION", "8", "3">>,
      <<"OUTFLOW", "TO", "OTHER", "REGIONS">>,
      OutflowThroughWells,
      <<"PAV", "=">> }

\* labels and fields the generated lines do not cover
SpecialLines ==
    { CurrentlyInPlaceLine, OutflowToRegion1Line, OutflowToOtherRegionsLine,
      OutflowThroughWellsLine, FourOilTokensLine, OtherLabelLine,
      DashLine, PlainLine, CloseLine,
      DataLine(MaterialBalanceError, <<"0.">>, <<"0.">>, <<"0.">>),
      DataLine(OriginallyInPlace, <<"0.", "0.", "0.">>, <<"0.">>, <<"0.", "0.", "0.">>),
      \* "OUTFLOW TO REGION" without an index, and with a non-integer one
      DataLine(<<"OUTFLOW", "TO", "REGION">>, <<"0.">>, <<"0.">>, <<"0.">>),
      DataLine(<<"OUTFLOW", "TO", "REGION", "BARSA">>, <<"0.">>, <<"0.">>, <<"0.">>),
      \* "OUTFLOW TO REGION" later in the label
      DataLine(<<"MATERIAL", "OUTFLOW", "TO", "REGION">>, <<"0.">>, <<"0.">>, <<"0.">>),
      DataLine(<<"CURRENTLY", "IN", "PLACE", "2", "OUTFLOW", "TO", "REGION">>,
               <<"0.">>, <<"0.">>, <<"0.">>),
      \* "OUTFLOW TO REGION" in the gas section
      DataLine(CurrentlyInPlace, <<"0.">>, <<"0.">>, <<"OUTFLOW", "TO", "REGION">>),
      \* non-numeric tokens
      DataLine(CurrentlyInPlace, <<"BARSA">>, <<"0.">>, <<"0.">>),
      DataLine(CurrentlyInPlace, <<"0.", "BARSA">>, <<"0.">>, <<"0.">>),
      DataLine(CurrentlyInPlace, <<"0.">>, <<"BARSA">>, <<"0.">>),
      DataLine(CurrentlyInPlace, <<"0.">>, <<"0.">>, <<"0.", "0.", "BARSA">>),
      \* fewer ':'-separated sections
      MkLine(None, None, "margin", << CurrentlyInPlace >>),
      MkLine(None, None, "margin", << CurrentlyInPlace, <<"0.">> >>),
      MkLine(None, None, "margin", << CurrentlyInPlace, <<"0.">>, <<"0.">> >>) }

\* the argument is a generated data line or one of the special lines
ParserInput(line) ==
    \/ \E l \in GenLabels, o \in SeqsUpTo(GenTokens, MaxTokens),
          w \in SeqsUpTo(GenTokens, MaxWaterTokens),
          g \in SeqsUpTo(GenTokens, MaxTokens) : line = DataLine(l, o, w, g)
    \/ line \in SpecialLines

InitLine ==
    /\ ParserInput(lp_line)
    /\ lp_result = None
    /\ ReportIdle
    /\ PvtIdle
    /\ CallIdle
    /\ D2Idle

ParseLine ==
    /\ lp_result = None
    /\ lp_result' = Some(report_block_lineparser(lp_line))
    /\ UNCHANGED << lp_line, reportvars, pvtvars, callvars, d2vars >>

NextLine == ParseLine
SpecLine == InitLine /\ [][NextLine]_vars

\* everything but the gas field of the line parses
ParsesUpToGas(line) ==
    /\ StartsWithAllowed(line)
    /\ LabelPart(line).tag = "ok"
    /\ OilPart(line).tag = "ok"
    /\ WaterPart(line).tag = "ok"
    /\ Len(line.sec) >= 4

\* C4: the gas field is parsed by token count, in the three shapes of the
\* oil field: three tokens (free, dissolved, total); one token total only;
\* two tokens free and total, dissolved None.
C4_GasShapes ==
    (lp_result # None /\ ParsesUpToGas(lp_line)
        /\ Len(lp_line.sec[4]) \in 1..3 /\ AllFloat(lp_line.sec[4]))
    => LET r == lp_result[1]
           gas == lp_line.sec[4]
       IN  /\ r.tag = "tuple"
           /\ Len(gas) = 3 =>
                 /\ r.free_gas = Some(Float(gas[1]))
                 /\ r.dissolved_gas = Some(Float(gas[2]))
                 /\ r.total_gas = Some(Float(gas[3]))
           /\ Len(gas) = 1 =>
                 /\ r.free_gas = None
                 /\ r.dissolved_gas = None
                 /\ r.total_gas = Some(Float(gas[1]))
           /\ Len(gas) = 2 =>
                 /\ r.free_gas = Some(Float(gas[1]))
                 /\ r.dissolved_gas = None
                 /\ r.total_gas = Some(Float(gas[2]))

\* the label, the water field and the gas field of the line parse
ParsesButOil(line) ==
    /\ StartsWithAllowed(line)
    /\ LabelPart(line).tag = "ok"
    /\ WaterPart(line).tag = "ok"
    /\ GasPart(line).tag = "ok"

\* C5: for a line that parses otherwise, one, two or three numeric oil
\* tokens give a row: three set (liquid, vapour, total); one sets total
\* only; two set liquid and total, vapour None; the single water token is
\* total_water.  The CURRENTLY IN PLACE line of the docstring gives
\* liquid_oil 21091398, vapour_oil None, total_oil 21091398, total_water
\* 4590182.
C5_OilWaterShapes ==
    lp_result # None =>
        LET r == lp_result[1]
            oil == lp_line.sec[2]
            water == lp_line.sec[3]
        IN  /\ (ParsesButOil(lp_line) /\ Len(oil) \in 1..3 /\ AllFloat(oil))
                   => r.tag = "tuple"
            /\ r.tag = "tuple" =>
                  /\ Len(oil) \in 1..3
                  /\ Len(oil) = 3 =>
                        /\ r.liquid_oil = Some(Float(oil[1]))
                        /\ r.vapour_oil = Some(Float(oil[2]))
                        /\ r.total_oil = Some(Float(oil[3]))
                  /\ Len(oil) = 1 =>
                        /\ r.liquid_oil = None
                        /\ r.vapour_oil = None
                        /\ r.total_oil = Some(Float(oil[1]))
                  /\ Len(oil) = 2 =>
                        /\ r.liquid_oil = Some(Float(oil[1]))
                        /\ r.vapour_oil = None
                        /\ r.total_oil = Some(Float(oil[2]))
                  /\ Len(water) = 1
                  /\ r.total_water = Some(Float(water[1]))
            /\ lp_line = CurrentlyInPlaceLine =>
                  /\ r.tag = "tuple"
                  /\ r.row_name = CurrentlyInPlace
                  /\ r.liquid_oil = Some(21091398)
                  /\ r.vapour_oil = None
                  /\ r.total_oil = Some(21091398)
                  /\ r.total_water = Some(4590182)

\* C5 witness: the CURRENTLY IN PLACE line has been parsed into a row
C5_Witness ==
    /\ lp_line = CurrentlyInPlaceLine
    /\ lp_result # None
    /\ lp_result[1].tag = "tuple"

\* C8: in every row to_region is set exactly when the row kind is
\* OutflowToRegion, and it is then the integer of the fourth token of the
\* row label; the OUTFLOW TO REGION 1 line of the docstring gives 1.
C8_ToRegion ==
    lp_result # None =>
        LET r == lp_result[1]
            label == lp_line.sec[1]
        IN  /\ r.tag = "tuple" =>
                  /\ (r.to_index # None) <=> (r.row_name = OutflowToRegion)
                  /\ r.to_index # None =>
                        /\ Len(label) >= 4
                        /\ IsInt(label[4])
                        /\ r.to_index = Some(ToInt(label[4]))
            /\ lp_line = OutflowToRegion1Line =>
                  /\ r.tag = "tuple"
                  /\ r.row_name = OutflowToRegion
                  /\ r.to_index = Some(1)

\* C8 witness: the OUTFLOW TO REGION 1 line has been parsed into a row
C8_Witness ==
    /\ lp_line = OutflowToRegion1Line
    /\ lp_result # None
    /\ lp_result[1].tag = "tuple"
    /\ lp_result[1].to_index # None

-----------------------------------------------------------------------------
(* Decks *)

\* A deck text, as far as the code and the parser look at it:
\*   tabdims  None when the text holds no TABDIMS, else <<item 2 (NTPVT)>>:
\*            defaulted ("1*") or a value
\*   density  the number of '/'-terminated records after DENSITY (0: no DENSITY)
\* A parsed deck has the same fields, with the records the parser kept.
MkDeck(kind, tabdims, density) ==
    [kind |-> kind, tabdims |-> tabdims, density |-> density]

Defaulted == [defaulted |-> TRUE, value |-> 0]
Declared(n) == [defaulted |-> FALSE, value |-> n]

\* isinstance(deck, str)
IsStr(d) == d.kind = "str"

\* "TABDIMS" in deck
HasTabdims(d) == d.tabdims # None

\* NTPVT of a deck: "If TABDIMS is in the deck, NTPVT always has a value.
\* It will be set to 1 if defaulted."; without TABDIMS the parser's default
Ntpvt(d) ==
    IF d.tabdims = None \/ d.tabdims[1].defaulted THEN 1 ELSE d.tabdims[1].value

Min(a, b) == IF a <= b THEN a ELSE b

\* EclFiles.str2deck: the permissive parse; records past NTPVT are not
\* returned ("only returning the first function by default")
str2deck(text) == MkDeck("deck", text.tabdims, Min(text.density, Ntpvt(text)))

\* inject_ntpvt with the "TABDIMS" test left out
inject_ntpvt_Always(deckstr, ntpvt) ==
    MkDeck("str", Some(Declared(ntpvt)), deckstr.density)

\* pvt2df.inject_ntpvt: "TABDIMS\n 1* <ntpvt> /\n\n" + deckstr
inject_ntpvt(deckstr, ntpvt) ==
    IF HasTabdims(deckstr) THEN deckstr
    ELSE MkDeck("str", Some(Declared(ntpvt)), deckstr.density)

\* inferdims.inject_dimcount(deckstr, "TABDIMS", 1, count): prepend a
\* TABDIMS record with count as NTPVT, every other item defaulted
inject_dimcount(deckstr, count) ==
    MkDeck("str", Some(Declared(count)), deckstr.density)

\* the strict re-parse of guess_dim: the DENSITY data is consumed without
\* a trailing-data error (more records than NTPVT) or a short-read error
\* (fewer records than NTPVT)
ReparseOk(text) == text.density = 0 \/ text.density = Ntpvt(text)

\* guess_dim: the first candidate
GuessFloor == 1

\* the rows of density_df: one per record of deck['DENSITY'], PVTNUM from 1
DensityRows(d) == [k \in 1..d.density |-> [PVTNUM |-> k, record |-> k]]

Texts ==
    { MkDeck("str", t, n) :
        t \in { None, Some(Defaulted) } \cup { Some(Declared(v)) : v \in 1..MaxNtpvt },
        n \in 0..MaxRecords }

\* the caller passes the text itself or EclFiles.str2deck(text)
DeckArgs(text) == { text, str2deck(text) }

PvtnumcountArgs == { None, Some(0), Some(1), Some(2) }

-----------------------------------------------------------------------------
(* pvt2df.densitydeck2df *)

InitPvt ==
    /\ text0 \in Texts
    /\ deck0 \in DeckArgs(text0)
    /\ pvtnumcount0 \in PvtnumcountArgs
    /\ deck = deck0
    /\ pvtnumcount = pvtnumcount0
    /\ candidate = 0
    /\ attempts = << >>
    /\ pvtnum_estimate = None
    /\ injected = << >>
    /\ density_df = << >>
    /\ dpc = "start"
    /\ dexc = None
    /\ inj = None
    /\ ReportIdle
    /\ LineIdle
    /\ CallIdle
    /\ D2Idle

\* "if not pvtnumcount": None and 0 are falsy
Falsy(n) == n = None \/ n = Some(0)

\* CountAfterTypeTest without the type test
CountAfterTypeTest_Keep(d, n) == n

\* pvtnumcount after "if not isinstance(deck, str): pvtnumcount = 1"
CountAfterTypeTest(d, n) == IF IsStr(d) THEN n ELSE Some(1)

\* Lines 80-84: is the dimension to be guessed?
MustGuess(d, n) == ~HasTabdims(d) /\ Falsy(CountAfterTypeTest(d, n))

\* Lines 80-84, up to the call of guess_dim
EnterDims ==
    /\ dpc = "start"
    /\ pvtnumcount' = IF HasTabdims(deck) THEN pvtnumcount
                      ELSE CountAfterTypeTest(deck, pvtnumcount)
    /\ IF MustGuess(deck, pvtnumcount)
       THEN dpc' = "guess" /\ candidate' = GuessFloor
       ELSE dpc' = "extract" /\ UNCHANGED candidate
    /\ UNCHANGED << text0, deck0, pvtnumcount0,
                    deck, attempts, pvtnum_estimate,
                    injected, density_df, dexc, inj, reportvars, linevars,
                    callvars, d2vars >>

\* guess_dim: one candidate is injected into a copy of the text and the
\* copy is re-parsed; the first candidate that parses is returned, and
\* AmbiguousDimension is raised past the ceiling
GuessTry ==
    /\ dpc = "guess"
    /\ attempts' = Append(attempts, candidate)
    /\ IF ReparseOk(inject_dimcount(deck, candidate))
       THEN /\ pvtnum_estimate' = Some(candidate)
            /\ dpc' = "inject"
            /\ UNCHANGED << candidate, dexc >>
       ELSE IF candidate >= GuessCeiling
       THEN /\ dpc' = "raised"
            /\ dexc' = Some("AmbiguousDimension")
            /\ UNCHANGED << candidate, pvtnum_estimate >>
       ELSE /\ candidate' = candidate + 1
            /\ UNCHANGED << pvtnum_estimate, dpc, dexc >>
    /\ UNCHANGED << text0, deck0, pvtnumcount0,
                    deck, pvtnumcount, injected,
                    density_df, inj, reportvars, linevars,
                    callvars, d2vars >>

\* InjectedCount with the first candidate for the estimate
InjectedCount_Floor == GuessFloor

\* the count line 87 hands to inject_dimcount
InjectedCount == pvtnum_estimate[1]

\* Lines 86-88: inject the estimate and re-parse
InjectAndReparse ==
    /\ dpc = "inject"
    /\ injected' = Append(injected, InjectedCount)
    /\ deck' = str2deck(inject_dimcount(deck, InjectedCount))
    /\ dpc' = "extract"
    /\ UNCHANGED << text0, deck0, pvtnumcount0,
                    pvtnumcount, candidate, attempts,
                    pvtnum_estimate, density_df, dexc, inj, reportvars, linevars,
                    callvars, d2vars >>

\* Lines 90-102: deck['DENSITY'] of a str raises TypeError
Extract ==
    /\ dpc = "extract"
    /\ IF IsStr(deck)
       THEN /\ dpc' = "raised"
            /\ dexc' = Some("TypeError")
            /\ UNCHANGED density_df
       ELSE /\ density_df' = DensityRows(deck)
            /\ dpc' = "returned"
            /\ UNCHANGED dexc
    /\ UNCHANGED << text0, deck0, pvtnumcount0,
                    deck, pvtnumcount, candidate, attempts,
                    pvtnum_estimate, injected, inj, reportvars, linevars,
                    callvars, d2vars >>

\* A caller applies inject_ntpvt to the deck string
CallInjectNtpvt ==
    /\ dpc = "start"
    /\ IsStr(deck0)
    /\ inj = None
    /\ \E n \in 0..(GuessCeiling + 1) :
          inj' = Some([ntpvt |-> n, out |-> inject_ntpvt(deck0, n)])
    /\ UNCHANGED << text0, deck0, pvtnumcount0,
                    deck, pvtnumcount, candidate, attempts,
                    pvtnum_estimate, injected, density_df, dpc, dexc,
                    reportvars, linevars,
                    callvars, d2vars >>

NextPvt == EnterDims \/ GuessTry \/ InjectAndReparse \/ Extract \/ CallInjectNtpvt
SpecPvt == InitPvt /\ [][NextPvt]_vars

-----------------------------------------------------------------------------
(* Properties of the dimension inference in densitydeck2df *)

\* does the text re-parse with candidate c injected?
Succeeds(text, c) == ReparseOk(inject_dimcount(text, c))

\* C9: for a deck text without TABDIMS the search tries the candidates in
\* increasing order from the floor, every candidate before the returned one
\* fails its re-parse, the returned one succeeds, and it is the count
\* injected into the deck that is parsed for extraction; the search gives
\* up only when no candidate up to the ceiling succeeds.
C9_MinimalGuess ==
    /\ \A i \in 1..Len(attempts) : attempts[i] = GuessFloor + i - 1
    /\ \A i \in 1..(Len(attempts) - 1) : ~Succeeds(deck0, attempts[i])
    /\ attempts # << >> => (IsStr(deck0) /\ ~HasTabdims(deck0))
    /\ pvtnum_estimate # None =>
          LET e == pvtnum_estimate[1] IN
          /\ e = attempts[Len(attempts)]
          /\ Succeeds(deck0, e)
          /\ \A c \in GuessFloor..(e - 1) : ~Succeeds(deck0, c)
          /\ dpc \in {"extract", "returned"} =>
                /\ injected = << e >>
                /\ deck = str2deck(inject_dimcount(deck0, e))
    /\ dexc = Some("AmbiguousDimension") =>
          \A c \in GuessFloor..GuessCeiling : ~Succeeds(deck0, c)
    /\ (IsStr(deck0) /\ ~HasTabdims(deck0) /\ Falsy(pvtnumcount0)
            /\ dpc \in {"extract", "returned"})
          => pvtnum_estimate # None

\* C9 witness: a text with two DENSITY records; 1 was tried and failed, 2
\* succeeded, and both records were extracted
C9_Witness ==
    /\ dpc = "returned"
    /\ attempts = << 1, 2 >>
    /\ pvtnum_estimate = Some(2)
    /\ deck0.density = 2
    /\ Len(density_df) = 2

\* the value a TABDIMS declares for NTPVT, the default sentinel counting 1
DeclaredValue(d) == IF d.tabdims[1].defaulted THEN 1 ELSE d.tabdims[1].value

\* where the count in force comes from
Provenance ==
    IF pvtnum_estimate # None THEN "inferred"
    ELSE IF HasTabdims(deck) THEN "declared"
    ELSE "default"

\* C10: when the deck holds TABDIMS, the count in force is the declared
\* value (1 for the default sentinel) with provenance declared, no candidate
\* is ever tried, nothing is injected, the deck is the one passed in, and
\* inject_ntpvt returns the text unchanged for every count handed to it.
C10_DeclaredWins ==
    HasTabdims(deck0) =>
        /\ Ntpvt(deck) = DeclaredValue(deck0)
        /\ Provenance = "declared"
        /\ attempts = << >>
        /\ dpc \notin {"guess", "inject"}
        /\ injected = << >>
        /\ deck = deck0
        /\ inj # None => inj[1].out = deck0

\* C10 witness: a text with a defaulted TABDIMS and a caller's count, past
\* the dimension step, and inject_ntpvt called on it with another count
C10_Witness ==
    /\ HasTabdims(deck0)
    /\ IsStr(deck0)
    /\ deck0.tabdims[1].defaulted
    /\ pvtnumcount0 = Some(2)
    /\ dpc = "extract"
    /\ inj # None
    /\ inj[1].ntpvt = 2

-----------------------------------------------------------------------------
(* Properties of densitydeck2df on decks without TABDIMS *)

\* densitydeck2df has ended
PvtEnded == dpc \in {"returned", "raised"}

\* no candidate from the floor to the ceiling re-parses
NoCandidate(text) == \A c \in GuessFloor..GuessCeiling : ~Succeeds(text, c)

\* C11: when the deck holds no TABDIMS, the search makes at most ceiling
\* attempts; when the caller gave no count and no candidate up to the
\* ceiling re-parses, the call ends with AmbiguousDimension and no table;
\* and the count becomes 1, other than by the caller's word, only after
\* candidate 1 was tried and re-parsed.
C11_NeverSilentlyOne ==
    ~HasTabdims(deck0) =>
        /\ Len(attempts) <= GuessCeiling
        /\ (Falsy(pvtnumcount0) /\ NoCandidate(text0) /\ PvtEnded) =>
              /\ dpc = "raised"
              /\ dexc = Some("AmbiguousDimension")
              /\ density_df = << >>
        /\ ((pvtnumcount = Some(1) /\ pvtnumcount0 # Some(1))
                \/ pvtnum_estimate = Some(1)) =>
              /\ \E i \in 1..Len(attempts) : attempts[i] = 1
              /\ Succeeds(text0, 1)

-----------------------------------------------------------------------------
(* pvt2df.deck2df *)

\* records of one keyword in a deck text
MaxSectionRecords == 2

KEYWORD_COLUMNS ==
    [ DENSITY |-> <<"PVTNUM", "OILDENSITY", "WATERDENSITY", "GASDENSITY">>,
      PVTW |-> <<"PVTNUM", "PRESSURE", "VOLUMEFACTOR", "COMPRESSIBILITY",
                 "VISCOSITY", "VISCOSIBILITY">>,
      PVTO |-> <<"PVTNUM", "GOR", "PRESSURE", "VOLUMEFACTOR", "VISCOSITY">>,
      PVTG |-> <<"PVTNUM", "PRESSURE", "RV", "VOLUMEFACTOR", "VISCOSITY">>,
      PVDG |-> <<"PVTNUM", "PRESSURE", "VOLUMEFACTOR", "VISCOSITY">>,
      ROCK |-> <<"PVTNUM", "PRESSURE", "COMPRESSIBILITY">> ]

\* KEYWORD_COLUMNS.keys(), in the order of the dict literal
KeywordOrder == << "DENSITY", "PVTW", "PVTO", "PVTG", "PVDG", "ROCK" >>

\* the keywords the decks of the model hold records of: the first and the
\* last of KEYWORD_COLUMNS
DeckKeywords == { "DENSITY", "ROCK" }

\* A deck with keyword sections: sections[kw] is the sequence of the records
\* of kw in deck order, a record being len(deckrecord[0]), the number of
\* values the loop of deck2df reshapes; density is the number of DENSITY
\* records, as in MkDeck
MkFullDeck(kind, tabdims, sections) ==
    [kind |-> kind, tabdims |-> tabdims, density |-> Len(sections["DENSITY"]),
     sections |-> sections]

\* "keyword in deck"
InDeck(kw, d) == kw \in DOMAIN d.sections /\ d.sections[kw] # << >>

\* EclFiles.str2deck on a text with sections: as str2deck, for every keyword
str2deckFull(text) ==
    MkFullDeck("deck", text.tabdims,
               [kw \in DOMAIN text.sections |->
                   SubSeq(text.sections[kw], 1,
                          Min(Len(text.sections[kw]), Ntpvt(text)))])

\* len(deckrecord[0]) of the records of the model: one value (a DENSITY
\* record as the parser returns it) or a full row of a keyword's columns
ItemLens == { 1 } \cup { Len(KEYWORD_COLUMNS[kw]) : kw \in DeckKeywords }

FullTexts ==
    { MkFullDeck("str", t, s) :
        t \in { None } \cup { Some(Declared(v)) : v \in 1..MaxSectionRecords },
        s \in [DeckKeywords -> SeqsUpTo(ItemLens, MaxSectionRecords)] }

\* pvt2df_main hands deck2df the parsed deck when it holds TABDIMS and the
\* text otherwise; a text with TABDIMS can be handed over as well
FullDeckArgs ==
    FullTexts \cup { str2deckFull(t) : t \in { x \in FullTexts : HasTabdims(x) } }

\* what deck2df returns: nothing (a bare "return") or a data frame
NoValue == [none |-> TRUE, columns |-> << >>, rows |-> << >>]
DataFrame(columns, rows) == [none |-> FALSE, columns |-> columns, rows |-> rows]

InitDeck2df ==
    /\ d2deck \in FullDeckArgs
    /\ d2density = None
    /\ keyword = 0
    /\ frames = << >>
    /\ d2pc = "start"
    /\ d2exc = None
    /\ d2ret = None
    /\ ReportIdle
    /\ LineIdle
    /\ PvtIdle
    /\ CallIdle

\* Lines 147-177 for a deck with TABDIMS or a text: without TABDIMS, line
\* 161 reads "ntpvt", which only the branch of a parsed deck has assigned
Deck2dfDims ==
    /\ d2pc = "start"
    /\ IF HasTabdims(d2deck)
       THEN d2pc' = "density" /\ UNCHANGED d2exc
       ELSE d2pc' = "raised" /\ d2exc' = Some("UnboundLocalError")
    /\ UNCHANGED << d2deck, d2density, keyword, frames, d2ret, reportvars,
                    linevars, pvtvars, callvars >>

\* Line 181: density_df = densitydeck2df(deck), the deck holding TABDIMS
Deck2dfDensity ==
    /\ d2pc = "density"
    /\ IF IsStr(d2deck)
       THEN /\ d2pc' = "raised"
            /\ d2exc' = Some("TypeError")
            /\ UNCHANGED << d2density, keyword >>
       ELSE /\ d2density' = Some(DensityRows(d2deck))
            /\ d2pc' = "loop"
            /\ keyword' = 1
            /\ UNCHANGED d2exc
    /\ UNCHANGED << d2deck, frames, d2ret, reportvars, linevars, pvtvars,
                    callvars >>

\* len(data) % column_count
Inconsistent(kw, n) == n % Len(KEYWORD_COLUMNS[kw]) # 0

\* Lines 183-203, one keyword of KEYWORD_COLUMNS.keys(): an absent keyword
\* is passed over; the first record of a present one ends the call, by the
\* bare "return" of line 193 when its length is inconsistent and otherwise
\* at line 199, where "satnum" is read and nothing has assigned it
Deck2dfKeyword ==
    /\ d2pc = "loop"
    /\ keyword <= Len(KeywordOrder)
    /\ LET kw == KeywordOrder[keyword] IN
       IF ~InDeck(kw, d2deck)
       THEN /\ keyword' = keyword + 1
            /\ UNCHANGED << d2pc, d2exc, d2ret >>
       ELSE IF Inconsistent(kw, d2deck.sections[kw][1])
       THEN /\ d2pc' = "returned"
            /\ d2ret' = Some(NoValue)
            /\ UNCHANGED << keyword, d2exc >>
       ELSE /\ d2pc' = "raised"
            /\ d2exc' = Some("UnboundLocalError")
            /\ UNCHANGED << keyword, d2ret >>
    /\ UNCHANGED << d2deck, d2density, frames, reportvars, linevars, pvtvars,
                    callvars >>

\* Lines 205-209
Deck2dfReturn ==
    /\ d2pc = "loop"
    /\ keyword > Len(KeywordOrder)
    /\ d2pc' = "returned"
    /\ d2ret' = IF frames # << >>
                THEN Some(DataFrame(<<"KEYWORD", "SATNUM">>, frames))
                ELSE Some(DataFrame(<< >>, << >>))
    /\ UNCHANGED << d2deck, d2density, keyword, frames, d2exc, reportvars,
                    linevars, pvtvars, callvars >>

NextDeck2df == Deck2dfDims \/ Deck2dfDensity \/ Deck2dfKeyword \/ Deck2dfReturn
SpecDeck2df == InitDeck2df /\ [][NextDeck2df]_vars

-----------------------------------------------------------------------------
(* Properties of deck2df *)

Deck2dfEnded == d2pc \in {"returned", "raised"}

\* every record of every keyword of the deck fits the keyword's columns
Consistent(d) ==
    \A kw \in DOMAIN d.sections : \A i \in 1..Len(d.sections[kw]) :
        ~Inconsistent(kw, d.sections[kw][i])

\* the index values of the rows of keyword kw in the returned table
IndexValues(kw) ==
    { d2ret[1].rows[i].SATNUM :
        i \in { j \in 1..Len(d2ret[1].rows) : d2ret[1].rows[j].KEYWORD = kw } }

\* C12: for a parsed deck with TABDIMS whose records all fit their columns,
\* densitydeck2df numbers the k-th DENSITY record k, and deck2df returns a
\* table in which the index values of every keyword with R records in the
\* deck are exactly 1..R.
C12_IndexRoundTrip ==
    /\ d2density # None =>
          \A k \in 1..Len(d2density[1]) : d2density[1][k].PVTNUM = k
    /\ (Deck2dfEnded /\ ~IsStr(d2deck) /\ Consistent(d2deck)) =>
          /\ d2pc = "returned"
          /\ ~d2ret[1].none
          /\ \A kw \in DOMAIN d2deck.sections :
                IndexValues(kw) = 1..Len(d2deck.sections[kw])


\* some record of keyword kw does not fit the keyword's columns
Mismatching(kw, d) ==
    \E i \in 1..Len(d.sections[kw]) : Inconsistent(kw, d.sections[kw][i])

\* C13: when deck2df has ended on a parsed deck with TABDIMS in which a
\* keyword has a record that does not fit its columns, it has returned a
\* table and not nothing, the table holds no row of a mismatching keyword,
\* and it holds rows of every other keyword present in the deck.
C13_MismatchIsolated ==
    (Deck2dfEnded /\ ~IsStr(d2deck)
        /\ \E kw \in DOMAIN d2deck.sections : Mismatching(kw, d2deck)) =>
        /\ d2pc = "returned"
        /\ ~d2ret[1].none
        /\ \A kw \in DOMAIN d2deck.sections :
              IF Mismatching(kw, d2deck)
              THEN IndexValues(kw) = { }
              ELSE InDeck(kw, d2deck) => IndexValues(kw) # { }

-----------------------------------------------------------------------------
(* Properties of densitydeck2df: how the deck is supplied *)

\* C14: for a deck text without TABDIMS that holds N >= 1 DENSITY records,
\* densitydeck2df on the parsed deck tries no candidate, never raises and
\* returns exactly one row, that of the first record; on the text itself,
\* with no count from the caller and N up to the ceiling, it never raises,
\* its estimate is N, and it returns N rows with PVTNUM 1..N in record order.
C14_DependsOnSupply ==
    (~HasTabdims(text0) /\ text0.density >= 1) =>
        /\ ~IsStr(deck0) =>
              /\ attempts = << >>
              /\ pvtnum_estimate = None
              /\ dpc # "raised"
              /\ dpc = "returned" =>
                    density_df = << [PVTNUM |-> 1, record |-> 1] >>
        /\ (IsStr(deck0) /\ Falsy(pvtnumcount0)
                /\ text0.density <= GuessCeiling) =>
              /\ dpc # "raised"
              /\ dpc = "returned" =>
                    /\ pvtnum_estimate = Some(text0.density)
                    /\ Len(density_df) = text0.density
                    /\ \A k \in 1..Len(density_df) :
                          density_df[k] = [PVTNUM |-> k, record |-> k]

\* C14 witness: the two-record text without TABDIMS handed over as a string
\* with no count; both records are returned, the second with PVTNUM 2
C14_Witness ==
    /\ dpc = "returned"
    /\ IsStr(deck0)
    /\ ~HasTabdims(deck0)
    /\ pvtnumcount0 = None
    /\ text0.density = 2
    /\ Len(density_df) = 2
    /\ density_df[1].PVTNUM = 1
    /\ density_df[2].PVTNUM = 2


\* C15: a table densitydeck2df returns has as many rows as the deck text
\* has DENSITY records, and when the text has records and their number
\* differs from the count of the TABDIMS in force (declared or injected),
\* the call ends with CardinalityMismatch.
C15_NoSilentTruncation ==
    /\ dpc = "returned" => Len(density_df) = text0.density
    /\ (PvtEnded /\ HasTabdims(deck) /\ text0.density >= 1
            /\ text0.density # Ntpvt(deck)) =>
          dexc = Some("CardinalityMismatch")


\* C16: when the deck text holds no DENSITY, densitydeck2df ends by
\* returning, without an exception, a table with no rows.
C16_AbsentKeyword ==
    (text0.density = 0 /\ PvtEnded) =>
        /\ dpc = "returned"
        /\ dexc = None
        /\ density_df = << >>

-----------------------------------------------------------------------------
(* One call after another: df on the same lines, densitydeck2df on the     *)
(* same deck                                                               *)

\* lines of the PRT file that is read twice
MaxReplayLines == 3

\* what a call of df ended with, and the state of the scan it ended in
ScanOutcome ==
    [lines |-> lines, records |-> records, pc |-> pc, exc |-> exc,
     in_report_block |-> in_report_block]

\* what a call of densitydeck2df ended with
PvtOutcome == [density_df |-> density_df, dpc |-> dpc, dexc |-> dexc]

\* FreshState with the state variables left as the previous call left them
FreshState_Stale ==
    [in_report_block |-> in_report_block, region_index |-> region_index,
     date |-> date]

\* Lines 129-131: the state variables of a call of df
FreshState ==
    [in_report_block |-> FALSE, region_index |-> None, date |-> None]

InitAgain == Init \/ InitPvt

\* "for line in prt_fh": the first call reads any lines, the second call
\* the lines the first one read
AgainRead ==
    /\ pc = "scan"
    /\ IF call = 1
       THEN /\ Len(lines) < MaxReplayLines
            /\ \E line \in ReportLines : LoopBody(line)
       ELSE /\ Len(lines) < Len(first[1].lines)
            /\ LoopBody(first[1].lines[Len(lines) + 1])
    /\ UNCHANGED << linevars, pvtvars, callvars, d2vars >>

\* prt_fh is exhausted
AgainEnd ==
    /\ pc = "scan"
    /\ call = 2 => Len(lines) = Len(first[1].lines)
    /\ pc' = "returned"
    /\ UNCHANGED << lines, records, emitted_at, in_report_block, region_index,
                    date, exc, linevars, pvtvars, callvars, d2vars >>

\* df is called a second time on the same file, after the first call has
\* returned or raised: lines 125-131
CallAgain ==
    /\ call = 1
    /\ pc \in {"returned", "raised"}
    /\ first' = Some(ScanOutcome)
    /\ call' = 2
    /\ lines' = << >>
    /\ records' = << >>
    /\ emitted_at' = << >>
    /\ in_report_block' = FreshState.in_report_block
    /\ region_index' = FreshState.region_index
    /\ date' = FreshState.date
    /\ pc' = "scan"
    /\ exc' = None
    /\ UNCHANGED << linevars, pvtvars, d2vars >>

\* densitydeck2df is called a second time with the same arguments, after
\* the first call has returned or raised: its names are local to the call
PvtCallAgain ==
    /\ call = 1
    /\ dpc \in {"returned", "raised"}
    /\ first' = Some(PvtOutcome)
    /\ call' = 2
    /\ deck' = deck0
    /\ pvtnumcount' = pvtnumcount0
    /\ candidate' = 0
    /\ attempts' = << >>
    /\ pvtnum_estimate' = None
    /\ injected' = << >>
    /\ density_df' = << >>
    /\ dpc' = "start"
    /\ dexc' = None
    /\ UNCHANGED << text0, deck0, pvtnumcount0, inj, reportvars, linevars,
                    d2vars >>

NextAgain ==
    \/ AgainRead \/ AgainEnd \/ CallAgain
    \/ EnterDims \/ GuessTry \/ InjectAndReparse \/ Extract \/ PvtCallAgain
SpecAgain == InitAgain /\ [][NextAgain]_vars

\* C17: the second call of df starts with the state variables at their
\* initial values and ends as the first call on the same lines did (same
\* rows, same exception or none), also when the first call ended inside a
\* block or by raising; the second call of densitydeck2df starts with an
\* empty table, no candidate tried and no estimate, and ends as the first.
C17_SecondCallSame ==
    call = 2 =>
        /\ (pc = "scan" /\ lines = << >>) =>
              /\ in_report_block = FALSE
              /\ region_index = None
              /\ date = None
              /\ records = << >>
        /\ pc \in {"returned", "raised"} =>
              /\ lines = first[1].lines
              /\ records = first[1].records
              /\ pc = first[1].pc
              /\ exc = first[1].exc
        /\ dpc = "start" =>
              /\ density_df = << >>
              /\ attempts = << >>
              /\ pvtnum_estimate = None
              /\ deck = deck0
        /\ dpc \in {"returned", "raised"} =>
              /\ density_df = first[1].density_df
              /\ dpc = first[1].dpc
              /\ dexc = first[1].dexc

\* C17 witness: the first call ended inside a block with a row emitted, and
\* the second call has returned
C17_Witness ==
    /\ call = 2
    /\ pc = "returned"
    /\ first[1].in_report_block
    /\ first[1].records # << >>

=============================================================================
